---- MODULE Spec2Model ----
(***************************************************************************)
(* Model of TrainingDataAccumulator (src/src/data/accumulator.py): the     *)
(* base and accumulated CSV files, and the three operations that read and  *)
(* write them.  DataFrames are modelled as named-column row sequences, CSV *)
(* files as a header plus positional text cells.  Spec runs the operations *)
(* one whole call after another; StorageSpec runs them one file access at  *)
(* a time, for two callers side by side and a storage that can fail.       *)
(* PipelineSpec runs the callers of the accumulator: the daily and the     *)
(* training Lambda handlers, the training loader and the Prefect flows.    *)
(***************************************************************************)
EXTENDS Integers, Sequences, FiniteSets, TLC

VARIABLES base_training_path, accumulated_path, lastCall, calls,
          proc, versions, writer, run, flow

vars == <<base_training_path, accumulated_path, lastCall, calls, proc, versions, writer,
          run, flow>>

(* ---------------------------- bounds ----------------------------------- *)

MaxRows == 2
MaxCalls == 2

(* ---------------------------- values ----------------------------------- *)

\* the missing value pandas fills in for a column a frame does not have
NaN == -1

\* ids the daily frames carry: id 2 is also in the base files, id 3 is new
Ids == {2, 3}
BasePrices == {10, 12}

\* the price of the k-th listing of a daily pull: one per position, none of
\* them a base price
DailyPrice(k) == 20 + k

\* pipeline.predict: the model's price for a listing
Prediction(k) == 20

Range(s) == {s[i] : i \in 1..Len(s)}

\* every number that can appear in a frame of the model
Numbers ==
    {1} \cup Ids \cup BasePrices
        \cup UNION { {DailyPrice(k), Prediction(k), DailyPrice(k) - Prediction(k)} : k \in 1..MaxRows }

(* ---------------------------- CSV files -------------------------------- *)

\* a path at which no file exists (Path.exists() is False)
NoFile == [exists |-> FALSE, header |-> <<>>, lines |-> <<>>]

CsvFile(header, lines) == [exists |-> TRUE, header |-> header, lines |-> lines]

\* to_csv writes a missing value as an empty field and a number as its digits
FormatCell(v) == IF v = NaN THEN "" ELSE ToString(v)

\* read_csv parses an empty field as missing and digits as the number
ParseCell(s) == IF s = "" THEN NaN ELSE CHOOSE n \in Numbers : ToString(n) = s

ColumnIndex(header, col) == CHOOSE j \in 1..Len(header) : header[j] = col

\* DataFrame.to_csv(path, index=False)
to_csv(df) ==
    CsvFile(df.columns,
            [i \in 1..Len(df.rows) |->
                [j \in 1..Len(df.columns) |-> FormatCell(df.rows[i][df.columns[j]])]])

\* pd.read_csv(path)
read_csv(file) ==
    [columns |-> file.header,
     rows    |-> [i \in 1..Len(file.lines) |->
                    [col \in Range(file.header) |->
                        ParseCell(file.lines[i][ColumnIndex(file.header, col)])]]]

(* ---------------------------- DataFrames ------------------------------- *)

DataFrame(columns, rows) == [columns |-> columns, rows |-> rows]

len(df) == Len(df.rows)

\* daily_df[training_cols].copy()
SelectColumns(df, cols) ==
    DataFrame(cols, [i \in 1..Len(df.rows) |-> [col \in Range(cols) |-> df.rows[i][col]]])

\* variant that strips the prediction but forgets the residual column
TrainingCols_OnlyPreds(columns) ==
    SelectSeq(columns, LAMBDA col : col \notin {"price_preds"})

\* the column list with the prediction columns left out
TrainingCols(columns) ==
    SelectSeq(columns, LAMBDA col : col \notin {"price_preds", "price_diff"})

\* a row widened to the given columns, missing ones filled with NaN
Reindex(row, columns) ==
    [col \in Range(columns) |-> IF col \in DOMAIN row THEN row[col] ELSE NaN]

\* variant that puts the incoming rows before the existing ones
concat_DailyFirst(a, b) ==
    LET columns == a.columns \o SelectSeq(b.columns, LAMBDA col : col \notin Range(a.columns))
    IN  DataFrame(columns,
                  [i \in 1..(Len(a.rows) + Len(b.rows)) |->
                      IF i <= Len(b.rows) THEN Reindex(b.rows[i], columns)
                      ELSE Reindex(a.rows[i - Len(b.rows)], columns)])

\* pd.concat([a, b], ignore_index=True): union of the columns in order of
\* first appearance, rows of a followed by rows of b
concat(a, b) ==
    LET columns == a.columns \o SelectSeq(b.columns, LAMBDA col : col \notin Range(a.columns))
    IN  DataFrame(columns,
                  [i \in 1..(Len(a.rows) + Len(b.rows)) |->
                      IF i <= Len(a.rows) THEN Reindex(a.rows[i], columns)
                      ELSE Reindex(b.rows[i - Len(a.rows)], columns)])

\* the rows of s at the positions in keep, in their order
KeepRows(s, keep) ==
    LET F[i \in 0..Len(s)] ==
            IF i = 0 THEN <<>>
            ELSE IF i \in keep THEN Append(F[i - 1], s[i]) ELSE F[i - 1]
    IN  F[Len(s)]

\* variant that removes nothing
drop_duplicates_KeepAll(df) == df

\* variant with keep='first'
drop_duplicates_KeepFirst(df) ==
    LET n == Len(df.rows)
        keep == {i \in 1..n : \A j \in 1..(i - 1) : df.rows[j]["id"] # df.rows[i]["id"]}
    IN  DataFrame(df.columns, KeepRows(df.rows, keep))

\* variant with keep=False: every row whose id occurs twice is dropped
drop_duplicates_KeepNone(df) ==
    LET n == Len(df.rows)
        keep == {i \in 1..n : \A j \in (1..n) \ {i} : df.rows[j]["id"] # df.rows[i]["id"]}
    IN  DataFrame(df.columns, KeepRows(df.rows, keep))

\* df.drop_duplicates(subset=['id'], keep='last'); missing ids compare equal
drop_duplicates(df) ==
    LET n == Len(df.rows)
        keep == {i \in 1..n : \A j \in (i + 1)..n : df.rows[j]["id"] # df.rows[i]["id"]}
    IN  DataFrame(df.columns, KeepRows(df.rows, keep))

(* ---------------------------- inputs ----------------------------------- *)

\* the value of a column in the k-th listing of a daily pull; price_diff is
\* the price minus the prediction
DailyValue(col, id, k) ==
    CASE col = "id" -> id
      [] col = "price" -> DailyPrice(k)
      [] col = "price_preds" -> Prediction(k)
      [] col = "predicted_price" -> Prediction(k)
      [] col = "price_diff" -> DailyPrice(k) - Prediction(k)

\* column layouts of the frames handed to add_daily_predictions: the scored
\* frame of the daily pipeline, a scored frame that names the prediction
\* predicted_price, a frame without id, and pd.DataFrame()
DailyLayouts ==
    { <<"id", "price", "price_preds", "price_diff">>,
      <<"id", "price", "predicted_price", "price_diff">>,
      <<"price">>,
      <<>> }

\* the frame with the given columns that lists the given ids
DailyFrame(columns, ids) ==
    DataFrame(columns,
              [k \in 1..Len(ids) |-> [col \in Range(columns) |-> DailyValue(col, ids[k], k)]])

DailyFrames ==
    { DailyFrame(columns, ids) :
        columns \in DailyLayouts, ids \in UNION { [1..n -> Ids] : n \in 0..MaxRows } }

\* the base training files the model starts from: the two listings of
\* Scenario A, a file that repeats an id, a file with a header only, a file
\* that carries a prediction column, and a missing file
BaseFiles ==
    { CsvFile(<<"id", "price">>, << <<"1", "10">>, <<"2", "12">> >>),
      CsvFile(<<"id", "price">>, << <<"2", "10">>, <<"2", "12">> >>),
      CsvFile(<<"id", "price">>, <<>>),
      CsvFile(<<"id", "price", "price_diff">>, << <<"1", "10", "2">> >>),
      NoFile }

(* ---------------------------- results ---------------------------------- *)

NoSummary == [added_rows |-> 0, duplicates_removed |-> 0, final_size |-> 0]
NoStats == [base_size |-> 0, accumulated_size |-> 0, growth |-> 0,
            growth_percentage |-> [num |-> 0, den |-> 1]]
NoFrame == DataFrame(<<>>, <<>>)

\* what the caller of one operation observes, with the call it follows: the
\* file it found, the call made just before it, whether it repeats that
\* call's frame, and the exception the handler caught without re-raising
Call(op, daily_df, outcome, summary, row_count, stats) ==
    [op |-> op, daily_df |-> daily_df, previous |-> accumulated_path,
     outcome |-> outcome, summary |-> summary, row_count |-> row_count, stats |-> stats,
     after |-> [op |-> lastCall.op, outcome |-> lastCall.outcome,
                row_count |-> lastCall.row_count],
     rerun |-> /\ op = "merge"
               /\ lastCall.op = "merge"
               /\ lastCall.outcome = "returned"
               /\ lastCall.daily_df = daily_df,
     caught |-> ""]

(* ---------------------------- callers ---------------------------------- *)

\* the processes that call the accumulator at the same time: the daily run
\* and a second caller (a flow retry, the training loader, a stats report)
Procs == {1, 2}

\* a caller that is in no call, and the fields a call keeps while it runs:
\* the accumulated file at the time it began, what it saw at the accumulated
\* path, the file it loaded, the text it is about to write, what its caller
\* receives, and the exception its body raised
IdleProc ==
    [pc |-> "idle", op |-> "", daily_df |-> NoFrame, start |-> NoFile, seen |-> NoFile,
     source |-> NoFile, pending |-> NoFile, outcome |-> "", error |-> ""]

(* ---------------------------- operations ------------------------------- *)

\* what one handler or loader call did: the monitor calls it made in order,
\* the response it returned, and what happened on the way
NoRun ==
    [kind |-> "", log |-> <<>>, statusCode |-> 0, raised |-> FALSE, fault |-> "",
     scored |-> NoFrame, monitored |-> FALSE, accumulation |-> "", email |-> "",
     use_accumulated |-> FALSE, s3 |-> NoFile, legacy |-> NoFile, found |-> NoFile,
     data_source |-> "", outcome |-> "", df |-> NoFrame]

\* a flow that was never started
NoFlow ==
    [name |-> "", pc |-> "idle", attempts |-> 0, training_result |-> 0,
     prediction_result |-> 0, predictions_started |-> FALSE, status |-> ""]

Init ==
    /\ base_training_path \in BaseFiles
    /\ accumulated_path = NoFile
    /\ lastCall = [op |-> "init", daily_df |-> NoFrame, previous |-> NoFile,
                   outcome |-> "returned", summary |-> NoSummary, row_count |-> 0,
                   stats |-> NoStats,
                   after |-> [op |-> "init", outcome |-> "returned", row_count |-> 0],
                   rerun |-> FALSE, caught |-> ""]
    /\ calls = 0
    /\ proc = [p \in Procs |-> IdleProc]
    /\ versions = {NoFile}
    /\ writer = 0
    /\ run = NoRun
    /\ flow = NoFlow

\* variant in which a missing file reads as an empty frame
Readable_Always(file) == TRUE

\* pd.read_csv returns a frame for a file that exists and raises
\* FileNotFoundError for one that does not
Readable(file) == file.exists

\* the file add_daily_predictions loads: accumulated if it exists, else base
LoadedFile == IF accumulated_path.exists THEN accumulated_path ELSE base_training_path

StripPredictions(daily_df) == SelectColumns(daily_df, TrainingCols(daily_df.columns))

\* variant that reports the net growth as added_rows
MergeSummary_NetAdded(daily_training, combined_df, deduplicated_df) ==
    [added_rows         |-> len(deduplicated_df) - (len(combined_df) - len(daily_training)),
     duplicates_removed |-> len(combined_df) - len(deduplicated_df),
     final_size         |-> len(deduplicated_df)]

\* variant that reports the concatenated size as final_size
MergeSummary_CombinedSize(daily_training, combined_df, deduplicated_df) ==
    [added_rows         |-> len(daily_training),
     duplicates_removed |-> len(combined_df) - len(deduplicated_df),
     final_size         |-> len(combined_df)]

\* the dict returned by add_daily_predictions
MergeSummary(daily_training, combined_df, deduplicated_df) ==
    [added_rows         |-> len(daily_training),
     duplicates_removed |-> len(combined_df) - len(deduplicated_df),
     final_size         |-> len(deduplicated_df)]

\* variant that writes the merged table to the path it loaded from
add_daily_predictions_IntoLoaded(daily_df) ==
    LET accumulated_df  == read_csv(LoadedFile)
        daily_training  == StripPredictions(daily_df)
        combined_df     == concat(accumulated_df, daily_training)
        deduplicated_df == drop_duplicates(combined_df)
    IN  IF ~Readable(LoadedFile)
        THEN /\ UNCHANGED <<base_training_path, accumulated_path>>
             /\ lastCall' = Call("merge", daily_df, "FileNotFoundError", NoSummary, 0, NoStats)
        ELSE IF "id" \notin Range(combined_df.columns)
        THEN /\ UNCHANGED <<base_training_path, accumulated_path>>
             /\ lastCall' = Call("merge", daily_df, "KeyError", NoSummary, 0, NoStats)
        ELSE /\ IF accumulated_path.exists
                THEN /\ accumulated_path' = to_csv(deduplicated_df)
                     /\ UNCHANGED base_training_path
                ELSE /\ base_training_path' = to_csv(deduplicated_df)
                     /\ UNCHANGED accumulated_path
             /\ lastCall' = Call("merge", daily_df, "returned",
                                 MergeSummary(daily_training, combined_df, deduplicated_df),
                                 0, NoStats)

add_daily_predictions(daily_df) ==
    LET accumulated_df  == read_csv(LoadedFile)
        daily_training  == StripPredictions(daily_df)
        combined_df     == concat(accumulated_df, daily_training)
        deduplicated_df == drop_duplicates(combined_df)
    IN  /\ UNCHANGED base_training_path
        /\ IF ~Readable(LoadedFile)
           THEN \* read_csv raises FileNotFoundError; re-raised by the handler
                /\ UNCHANGED accumulated_path
                /\ lastCall' = Call("merge", daily_df, "FileNotFoundError", NoSummary, 0, NoStats)
           ELSE IF "id" \notin Range(combined_df.columns)
           THEN \* drop_duplicates raises KeyError; re-raised by the handler
                /\ UNCHANGED accumulated_path
                /\ lastCall' = Call("merge", daily_df, "KeyError", NoSummary, 0, NoStats)
           ELSE /\ accumulated_path' = to_csv(deduplicated_df)
                /\ lastCall' = Call("merge", daily_df, "returned",
                                    MergeSummary(daily_training, combined_df, deduplicated_df),
                                    0, NoStats)

\* variant that appends the base rows to the rows already accumulated
ResetFrame_Append ==
    IF accumulated_path.exists
    THEN concat(read_csv(accumulated_path), read_csv(base_training_path))
    ELSE read_csv(base_training_path)

\* the frame reset_accumulated_data writes: the base file as read
ResetFrame == read_csv(base_training_path)

reset_accumulated_data ==
    LET base_df == ResetFrame
    IN  /\ UNCHANGED base_training_path
        /\ IF ~Readable(base_training_path)
           THEN /\ UNCHANGED accumulated_path
                /\ lastCall' = Call("reset", NoFrame, "FileNotFoundError", NoSummary, 0, NoStats)
           ELSE /\ accumulated_path' = to_csv(base_df)
                /\ lastCall' = Call("reset", NoFrame, "returned", NoSummary, len(base_df), NoStats)

\* variant that reports the growth as base minus accumulated
TrainingStats_Shrink(base_df, accumulated_df) ==
    [base_size |-> len(base_df),
     accumulated_size |-> len(accumulated_df),
     growth |-> len(base_df) - len(accumulated_df),
     growth_percentage |-> [num |-> (len(accumulated_df) - len(base_df)) * 100,
                            den |-> len(base_df)]]

\* the dict get_training_stats builds; growth_percentage is kept as the
\* quotient it is computed from
TrainingStats(base_df, accumulated_df) ==
    [base_size |-> len(base_df),
     accumulated_size |-> len(accumulated_df),
     growth |-> len(accumulated_df) - len(base_df),
     growth_percentage |-> [num |-> (len(accumulated_df) - len(base_df)) * 100,
                            den |-> len(base_df)]]

\* the exception the body of get_training_stats raises once the accumulated
\* file is found to exist, "" if it raises none
StatsError(base_file) ==
    IF ~Readable(base_file) THEN "FileNotFoundError"
    ELSE IF len(read_csv(base_file)) = 0 THEN "ZeroDivisionError"
    ELSE ""

get_training_stats ==
    /\ UNCHANGED <<base_training_path, accumulated_path>>
    /\ IF accumulated_path.exists
       THEN LET accumulated_df == read_csv(accumulated_path)
                base_df == read_csv(base_training_path)
            IN  IF StatsError(base_training_path) # ""
                THEN \* caught by the handler, which prints it and returns None
                     lastCall' = [Call("stats", NoFrame, "none", NoSummary, 0, NoStats)
                                    EXCEPT !.caught = StatsError(base_training_path)]
                ELSE lastCall' = Call("stats", NoFrame, "returned", NoSummary, 0,
                                      TrainingStats(base_df, accumulated_df))
       ELSE lastCall' = Call("stats", NoFrame, "none", NoSummary, 0, NoStats)

\* one more operation is invoked on the accumulator
Invoke ==
    /\ calls < MaxCalls
    /\ calls' = calls + 1
    /\ UNCHANGED <<proc, versions, writer, run, flow>>

Next ==
    \/ \E daily_df \in DailyFrames : Invoke /\ add_daily_predictions(daily_df)
    \/ Invoke /\ reset_accumulated_data
    \/ Invoke /\ get_training_stats

Spec == Init /\ [][Next]_vars

(* ------------------- operations as steps on the storage ----------------- *)
(* The same three operations, taken one file access at a time by callers   *)
(* that run side by side: the existence test and read, the open of the     *)
(* accumulated path for writing, and the write of the text.                *)

\* the accumulated file right after open(path, 'w'): it exists and is empty
Truncated == CsvFile(<<>>, <<>>)

\* read_csv raises EmptyDataError for a file without a header line
Parsable(file) == file.header # <<>>

\* the text of pending written from offset 0 into the file as it stands: a
\* file truncated by this writer holds exactly pending; lines another writer
\* put beyond the end of pending stay
Overlay(file, pending) ==
    CsvFile(pending.header,
            pending.lines \o SubSeq(file.lines, Len(pending.lines) + 1, Len(file.lines)))

\* the disk states a run starts from: base as in the sequential model, and
\* the accumulated file absent or left by an earlier run
StorageBases ==
    { CsvFile(<<"id", "price">>, << <<"1", "10">>, <<"2", "12">> >>),
      CsvFile(<<"id", "price">>, <<>>),
      NoFile }

StoredFiles ==
    { NoFile, CsvFile(<<"id", "price">>, << <<"1", "10">>, <<"2", "12">> >>) }

\* the daily frames of the side-by-side callers: one listing each
StorageFrames ==
    { DailyFrame(<<"id", "price", "price_preds", "price_diff">>, <<id>>) : id \in Ids }

StorageInit ==
    /\ base_training_path \in StorageBases
    /\ accumulated_path \in StoredFiles
    /\ lastCall = [op |-> "init", daily_df |-> NoFrame, previous |-> NoFile,
                   outcome |-> "returned", summary |-> NoSummary, row_count |-> 0,
                   stats |-> NoStats,
                   after |-> [op |-> "init", outcome |-> "returned", row_count |-> 0],
                   rerun |-> FALSE, caught |-> ""]
    /\ calls = 0
    /\ proc = [p \in Procs |-> IdleProc]
    /\ versions = {accumulated_path}
    /\ writer = 0
    /\ run = NoRun
    /\ flow = NoFlow

\* caller p enters one of the three methods
Begin(p, op, daily_df) ==
    /\ proc[p].pc \in {"idle", "done"}
    /\ calls < MaxCalls
    /\ calls' = calls + 1
    /\ proc' = [proc EXCEPT ![p] = [IdleProc EXCEPT !.pc = "load", !.op = op,
                                                    !.daily_df = daily_df,
                                                    !.start = accumulated_path]]
    /\ UNCHANGED <<base_training_path, accumulated_path, lastCall, versions, writer, run, flow>>

\* the call of p ends without touching the accumulated file
Ends(p, source, outcome, error) ==
    proc' = [proc EXCEPT ![p].pc = "done", ![p].source = source,
                         ![p].seen = IF accumulated_path.exists THEN accumulated_path ELSE NoFile,
                         ![p].outcome = outcome, ![p].error = error]

\* the call of p has the text to write and goes on to open the file
Prepares(p, source, pending) ==
    proc' = [proc EXCEPT ![p].pc = "open", ![p].source = source,
                         ![p].seen = IF accumulated_path.exists THEN accumulated_path ELSE NoFile,
                         ![p].pending = pending]

\* add_daily_predictions up to the line before to_csv
LoadMerge(p) ==
    LET accumulated_df  == read_csv(LoadedFile)
        daily_training  == StripPredictions(proc[p].daily_df)
        combined_df     == concat(accumulated_df, daily_training)
        deduplicated_df == drop_duplicates(combined_df)
    IN  IF ~Readable(LoadedFile) THEN Ends(p, LoadedFile, "raised", "FileNotFoundError")
        ELSE IF ~Parsable(LoadedFile) THEN Ends(p, LoadedFile, "raised", "EmptyDataError")
        ELSE IF "id" \notin Range(combined_df.columns)
             THEN Ends(p, LoadedFile, "raised", "KeyError")
        ELSE Prepares(p, LoadedFile, to_csv(deduplicated_df))

\* reset_accumulated_data up to the line before to_csv
LoadReset(p) ==
    IF ~Readable(base_training_path)
    THEN Ends(p, base_training_path, "raised", "FileNotFoundError")
    ELSE Prepares(p, base_training_path, to_csv(ResetFrame))

\* get_training_stats: the handler catches what the body raises and returns
\* None, the value it also returns when no accumulated file exists
LoadStats(p) ==
    IF ~accumulated_path.exists THEN Ends(p, NoFile, "none", "")
    ELSE IF ~Parsable(accumulated_path) THEN Ends(p, accumulated_path, "none", "EmptyDataError")
    ELSE IF StatsError(base_training_path) # ""
         THEN Ends(p, accumulated_path, "none", StatsError(base_training_path))
    ELSE Ends(p, accumulated_path, "returned", "")

\* caller p tests for and reads the files its method starts from
Load(p) ==
    /\ proc[p].pc = "load"
    /\ CASE proc[p].op = "merge" -> LoadMerge(p)
         [] proc[p].op = "reset" -> LoadReset(p)
         [] proc[p].op = "stats" -> LoadStats(p)
    /\ UNCHANGED <<base_training_path, accumulated_path, lastCall, calls, versions, writer, run, flow>>

\* to_csv opens the accumulated path itself for writing, which empties it
Open(p) ==
    /\ proc[p].pc = "open"
    /\ accumulated_path' = Truncated
    /\ proc' = [proc EXCEPT ![p].pc = "write"]
    /\ writer' = 0
    /\ UNCHANGED <<base_training_path, lastCall, calls, versions, run, flow>>

\* to_csv writes the text and closes the file; the method returns
Write(p) ==
    /\ proc[p].pc = "write"
    /\ accumulated_path' = Overlay(accumulated_path, proc[p].pending)
    /\ proc' = [proc EXCEPT ![p].pc = "done", ![p].outcome = "returned"]
    /\ versions' = IF accumulated_path' = proc[p].pending
                   THEN versions \cup {proc[p].pending} ELSE versions
    /\ writer' = IF accumulated_path' = proc[p].pending THEN p ELSE 0
    /\ UNCHANGED <<base_training_path, lastCall, calls, run, flow>>

\* the storage fails under to_csv, before the open or before the text is
\* written: OSError reaches the caller and the file stays as it is
Fail(p) ==
    /\ proc[p].pc \in {"open", "write"}
    /\ proc' = [proc EXCEPT ![p].pc = "done", ![p].outcome = "raised", ![p].error = "OSError"]
    /\ UNCHANGED <<base_training_path, accumulated_path, lastCall, calls, versions, writer, run, flow>>

StorageNext ==
    \/ \E p \in Procs, daily_df \in StorageFrames : Begin(p, "merge", daily_df)
    \/ \E p \in Procs : Begin(p, "reset", NoFrame)
    \/ \E p \in Procs : Begin(p, "stats", NoFrame)
    \/ \E p \in Procs : Load(p)
    \/ \E p \in Procs : Open(p)
    \/ \E p \in Procs : Write(p)
    \/ \E p \in Procs : Fail(p)

StorageSpec == StorageInit /\ [][StorageNext]_vars

(* ------------------- the pipelines around the accumulator --------------- *)
(* The two Lambda handlers, the training loader and the Prefect flows that *)
(* call the handlers.  A handler invocation is one step; a flow is a       *)
(* sequence of task attempts.                                              *)

TARGET_COLUMN == "price"

\* variant that names the prediction column as the documentation does
PREDICTION_COLUMN_AsDocumented == "predicted_price"

PREDICTION_COLUMN == "price_preds"

\* the frames load_data hands on: two listings, and a pull without ids
PulledFrames ==
    { DailyFrame(<<"id", "price">>, <<2, 3>>),
      DailyFrame(<<"price">>, <<2>>) }

\* predict_and_monitor adds the prediction and the residual to the frame
Scored(df) ==
    LET columns == df.columns \o <<PREDICTION_COLUMN, "price_diff">>
    IN  DataFrame(columns,
                  [k \in 1..Len(df.rows) |->
                      [col \in Range(columns) |->
                          IF col = PREDICTION_COLUMN THEN Prediction(k)
                          ELSE IF col = "price_diff"
                               THEN df.rows[k][TARGET_COLUMN] - Prediction(k)
                          ELSE df.rows[k][col]]])

\* the objects the training loader can find besides the two accumulator
\* files: training_load.csv in the bucket (NoFile: the download fails) and
\* the local legacy training_load.csv
S3Objects == { NoFile, CsvFile(<<"id", "price">>, << <<"2", "10">>, <<"2", "12">> >>) }
LegacyFiles == { NoFile, CsvFile(<<"id", "price">>, << <<"3", "10">> >>) }

\* the disk states the pipelines start from
PipelineBases ==
    { CsvFile(<<"id", "price">>, << <<"1", "10">>, <<"2", "12">> >>),
      CsvFile(<<"id", "price", "price_diff">>, << <<"1", "10", "2">> >>),
      NoFile }

PipelineStored ==
    { NoFile, CsvFile(<<"id", "price">>, << <<"2", "10">>, <<"2", "12">> >>) }

PipelineInit ==
    /\ base_training_path \in PipelineBases
    /\ accumulated_path \in PipelineStored
    /\ lastCall = [op |-> "init", daily_df |-> NoFrame, previous |-> NoFile,
                   outcome |-> "returned", summary |-> NoSummary, row_count |-> 0,
                   stats |-> NoStats,
                   after |-> [op |-> "init", outcome |-> "returned", row_count |-> 0],
                   rerun |-> FALSE, caught |-> ""]
    /\ calls = 0
    /\ proc = [p \in Procs |-> IdleProc]
    /\ versions = {accumulated_path}
    /\ writer = 0
    /\ run = NoRun
    /\ flow = NoFlow

\* variant that reports success before the step that can still fail
HandlerLog_SuccessFirst(failed, late) ==
    <<"pipeline_start">> \o
        (IF late THEN <<"pipeline_success">> ELSE <<>>) \o
        (IF failed THEN <<"pipeline_failure", "send_failure_alert">>
         ELSE <<"pipeline_success">>)

\* the monitor calls of one lambda_handler invocation: log_pipeline_start at
\* the top of the try block, log_pipeline_success as its last call, and
\* log_pipeline_failure (failure metric, then _send_failure_alert) in the
\* except block; late tells that the exception came after the pipeline steps
HandlerLog(failed, late) ==
    <<"pipeline_start">> \o
        (IF failed THEN <<"pipeline_failure", "send_failure_alert">>
         ELSE <<"pipeline_success">>)

\* the response of a lambda_handler
StatusCode(failed) == IF failed THEN 500 ELSE 200

\* the summary after predict_and_monitor selects the id column of the frame
SummaryFails(scored) == "id" \notin Range(scored.columns)

\* variant without the try block around the accumulation
DailyFailed_AccumulationFatal(fault, scored, accumulation, email) ==
    \/ fault # "none"
    \/ SummaryFails(scored)
    \/ accumulation # "returned"

\* the daily handler reaches its except block: a step before or within
\* predict_and_monitor raised, or the summary did; what the accumulation and
\* the email raise is caught inside predict_and_monitor
DailyFailed(fault, scored, accumulation, email) ==
    \/ fault # "none"
    \/ SummaryFails(scored)

\* lambda_daily_run.lambda_handler
lambda_daily_run_handler(df, fault, email) ==
    LET scored == Scored(df)
    IN  /\ calls < MaxCalls
        /\ calls' = calls + 1
        /\ UNCHANGED <<proc, versions, writer>>
        /\ IF fault # "none"
           THEN \* setup, model or data loading, scoring or the upload raised
                /\ UNCHANGED <<base_training_path, accumulated_path, lastCall>>
                /\ run' = [NoRun EXCEPT !.kind = "daily", !.fault = fault,
                              !.log = HandlerLog(TRUE, FALSE),
                              !.statusCode = StatusCode(TRUE),
                              !.accumulation = "skipped", !.email = "skipped",
                              !.found = accumulated_path]
           ELSE /\ add_daily_predictions(scored)
                /\ LET failed == DailyFailed(fault, scored, lastCall'.outcome, email)
                   IN  run' = [NoRun EXCEPT !.kind = "daily", !.fault = fault,
                                  !.scored = scored, !.monitored = TRUE,
                                  !.accumulation = lastCall'.outcome, !.email = email,
                                  !.log = HandlerLog(failed, TRUE),
                                  !.statusCode = StatusCode(failed),
                                  !.found = accumulated_path]

\* variant that reads the local base file before it tries the bucket
TrainingSource_LocalFirst(use_accumulated, s3, legacy) ==
    IF use_accumulated /\ accumulated_path.exists
    THEN [data_source |-> "accumulated", file |-> accumulated_path]
    ELSE IF base_training_path.exists
    THEN [data_source |-> "local_base", file |-> base_training_path]
    ELSE IF s3.exists THEN [data_source |-> "s3_base", file |-> s3]
    ELSE [data_source |-> "legacy", file |-> legacy]

\* the file download_training_data reads: the accumulated file, else the
\* bucket's training_load.csv, else the local base file, else the legacy file
TrainingSource(use_accumulated, s3, legacy) ==
    IF use_accumulated /\ accumulated_path.exists
    THEN [data_source |-> "accumulated", file |-> accumulated_path]
    ELSE IF s3.exists THEN [data_source |-> "s3_base", file |-> s3]
    ELSE IF base_training_path.exists
    THEN [data_source |-> "local_base", file |-> base_training_path]
    ELSE [data_source |-> "legacy", file |-> legacy]

\* what download_training_data gives its caller: the deduplicated frame, or
\* the exception of read_csv or drop_duplicates, re-raised
TrainingData(use_accumulated, s3, legacy) ==
    LET chosen == TrainingSource(use_accumulated, s3, legacy)
        df == read_csv(chosen.file)
    IN  IF ~Readable(chosen.file)
        THEN [data_source |-> chosen.data_source, outcome |-> "FileNotFoundError",
              df |-> NoFrame]
        ELSE IF "id" \notin Range(df.columns)
        THEN [data_source |-> chosen.data_source, outcome |-> "KeyError", df |-> NoFrame]
        ELSE [data_source |-> chosen.data_source, outcome |-> "returned",
              df |-> drop_duplicates(df)]

\* download_training_data called on its own
download_training_data(use_accumulated, s3, legacy) ==
    LET data == TrainingData(use_accumulated, s3, legacy)
    IN  /\ calls < MaxCalls
        /\ calls' = calls + 1
        /\ UNCHANGED <<base_training_path, accumulated_path, lastCall, proc, versions,
                       writer, flow>>
        /\ run' = [NoRun EXCEPT !.kind = "download", !.use_accumulated = use_accumulated,
                      !.s3 = s3, !.legacy = legacy, !.found = accumulated_path,
                      !.data_source = data.data_source, !.outcome = data.outcome,
                      !.df = data.df, !.raised = data.outcome # "returned"]

\* lambda_training.lambda_handler: it loads with use_accumulated left at True
lambda_training_handler(s3, legacy, fault) ==
    LET data == TrainingData(TRUE, s3, legacy)
        failed == data.outcome # "returned" \/ fault # "none"
    IN  /\ calls < MaxCalls
        /\ calls' = calls + 1
        /\ UNCHANGED <<base_training_path, accumulated_path, lastCall, proc, versions,
                       writer>>
        /\ run' = [NoRun EXCEPT !.kind = "training", !.fault = fault,
                      !.use_accumulated = TRUE, !.s3 = s3, !.legacy = legacy,
                      !.found = accumulated_path,
                      !.data_source = data.data_source, !.outcome = data.outcome,
                      !.df = data.df,
                      !.log = HandlerLog(failed, FALSE),
                      !.statusCode = StatusCode(failed)]

\* the steps of a handler that can raise, as the invocation meets them
DailyFaults == {"none", "load"}
TrainingFaults == {"none", "train"}
EmailOutcomes == {"sent", "failed"}

\* @task(retries=...): the attempts the engine makes beyond the first
Retries(task) == IF task = "predictions" THEN 3 ELSE 2

\* no task of a flow is under way
FlowAtRest == flow.pc \in {"idle", "returned", "raised"}

\* variant of full_ml_pipeline that runs the predictions before the training
FirstTask_PredictionsFirst(name) ==
    IF name = "weekly_training_flow" THEN "training" ELSE "predictions"

\* the task a flow calls first
FirstTask(name) ==
    IF name = "daily_predictions_flow" THEN "predictions" ELSE "training"

FlowNames == {"daily_predictions_flow", "weekly_training_flow", "full_ml_pipeline"}

\* a flow is called and reaches its first task
StartFlow(name) ==
    /\ FlowAtRest
    /\ calls < MaxCalls
    /\ flow' = [NoFlow EXCEPT !.name = name, !.pc = FirstTask(name),
                              !.predictions_started = FirstTask(name) = "predictions"]
    /\ UNCHANGED <<base_training_path, accumulated_path, lastCall, calls, proc, versions,
                   writer, run>>

\* the flow after run_model_training returned result
AfterTraining(result) ==
    IF flow.name = "full_ml_pipeline" /\ flow.prediction_result = 0
    THEN [flow EXCEPT !.pc = "predictions", !.attempts = 0, !.training_result = result,
                      !.predictions_started = TRUE]
    ELSE [flow EXCEPT !.pc = "returned", !.training_result = result, !.status = "success"]

\* the flow after run_daily_predictions returned result
AfterPredictions(result) ==
    IF flow.name = "full_ml_pipeline" /\ flow.training_result = 0
    THEN [flow EXCEPT !.pc = "training", !.attempts = 0, !.prediction_result = result]
    ELSE [flow EXCEPT !.pc = "returned", !.prediction_result = result, !.status = "success"]

\* run_model_training: the task calls the handler and returns what it returns
run_model_training(s3, legacy, fault) ==
    /\ flow.pc = "training"
    /\ lambda_training_handler(s3, legacy, fault)
    /\ flow' = AfterTraining(run'.statusCode)

\* run_daily_predictions: the task calls the handler and returns what it returns
run_daily_predictions(df, fault, email) ==
    /\ flow.pc = "predictions"
    /\ lambda_daily_run_handler(df, fault, email)
    /\ flow' = AfterPredictions(run'.statusCode)

\* an attempt of the current task ends with an exception: the engine runs the
\* task again while retries are left, then the exception leaves the flow
AttemptRaises ==
    /\ flow.pc \in {"training", "predictions"}
    /\ flow' = IF flow.attempts < Retries(flow.pc)
               THEN [flow EXCEPT !.attempts = flow.attempts + 1]
               ELSE [flow EXCEPT !.pc = "raised"]
    /\ UNCHANGED <<base_training_path, accumulated_path, lastCall, calls, proc, versions,
                   writer, run>>

\* a handler invoked by Lambda itself, outside any flow
InvokeDaily(df, fault, email) ==
    /\ FlowAtRest
    /\ lambda_daily_run_handler(df, fault, email)
    /\ UNCHANGED flow

InvokeTraining(s3, legacy, fault) ==
    /\ FlowAtRest
    /\ lambda_training_handler(s3, legacy, fault)
    /\ UNCHANGED flow

PipelineNext ==
    \/ \E df \in PulledFrames, fault \in DailyFaults, email \in EmailOutcomes :
           InvokeDaily(df, fault, email)
    \/ \E s3 \in S3Objects, legacy \in LegacyFiles, fault \in TrainingFaults :
           InvokeTraining(s3, legacy, fault)
    \/ \E use_accumulated \in BOOLEAN, s3 \in S3Objects, legacy \in LegacyFiles :
           FlowAtRest /\ download_training_data(use_accumulated, s3, legacy)
    \/ \E name \in FlowNames : StartFlow(name)
    \/ \E s3 \in S3Objects, legacy \in LegacyFiles, fault \in TrainingFaults :
           run_model_training(s3, legacy, fault)
    \/ \E df \in PulledFrames, fault \in DailyFaults, email \in EmailOutcomes :
           run_daily_predictions(df, fault, email)
    \/ AttemptRaises

PipelineSpec == PipelineInit /\ [][PipelineNext]_vars

(* ---------------------------- properties ------------------------------- *)

\* the text of column col in line i of a CSV file
Cell(file, i, col) == file.lines[i][ColumnIndex(file.header, col)]

\* the ids a CSV file holds, as written
IdCells(file) == {Cell(file, i, "id") : i \in 1..Len(file.lines)}

\* no two lines of the file carry the same id
UniqueIds(file) ==
    \A i, j \in 1..Len(file.lines) : i # j => Cell(file, i, "id") # Cell(file, j, "id")

\* the last operation was a merge that returned a summary
MergeReturned == lastCall.op = "merge" /\ lastCall.outcome = "returned"

\* the frame handed to the last merge has an id column
DailyHasId == "id" \in Range(lastCall.daily_df.columns)

\* the ids of the frame handed to the last merge, as they are written
DailyIdCells ==
    {FormatCell(lastCall.daily_df.rows[k]["id"]) : k \in 1..Len(lastCall.daily_df.rows)}

\* the table the last merge started from: the accumulated file as it was, or
\* the base file when there was none
PreviousTable == IF lastCall.previous.exists THEN lastCall.previous ELSE base_training_path

\* position of the last row of the daily frame with the given id
LastDailyRow(idCell) ==
    CHOOSE k \in 1..Len(lastCall.daily_df.rows) :
        /\ FormatCell(lastCall.daily_df.rows[k]["id"]) = idCell
        /\ \A m \in (k + 1)..Len(lastCall.daily_df.rows) :
               FormatCell(lastCall.daily_df.rows[m]["id"]) # idCell

\* line i of the accumulated file holds exactly the training values of daily
\* row k, and nothing in the columns that row does not have
LineIsDailyRow(i, k) ==
    \A col \in Range(accumulated_path.header) :
        Cell(accumulated_path, i, col) =
            IF col \in Range(lastCall.daily_df.columns) \ {"price_preds", "price_diff"}
            THEN FormatCell(lastCall.daily_df.rows[k][col])
            ELSE ""

\* C1: after a successful merge the persisted accumulated table holds no two
\* rows with the same id, whatever the base table and the incoming table were
C1_UniqueAfterMerge == MergeReturned => UniqueIds(accumulated_path)

\* a merge that removed duplicates and left at least two rows
C1_Witness ==
    /\ MergeReturned
    /\ lastCall.summary.duplicates_removed > 0
    /\ Len(accumulated_path.lines) >= 2

\* C2: for every id that was in the accumulated table and is in the incoming
\* records, the merged table holds exactly one row for it, with the values of
\* the last incoming record of that id
C2_LastWriteWins ==
    (MergeReturned /\ lastCall.previous.exists /\ DailyHasId) =>
        \A idCell \in DailyIdCells \cap IdCells(lastCall.previous) :
            LET now == {i \in 1..Len(accumulated_path.lines) :
                            Cell(accumulated_path, i, "id") = idCell}
            IN  /\ Cardinality(now) = 1
                /\ \A i \in now : LineIsDailyRow(i, LastDailyRow(idCell))

\* an id of the accumulated table is overwritten by an incoming table that
\* repeats it with two different prices
C2_Witness ==
    /\ MergeReturned /\ lastCall.previous.exists /\ DailyHasId
    /\ \E k, m \in 1..Len(lastCall.daily_df.rows) :
           /\ k < m
           /\ lastCall.daily_df.rows[k]["id"] = lastCall.daily_df.rows[m]["id"]
           /\ lastCall.daily_df.rows[k]["price"] # lastCall.daily_df.rows[m]["price"]
           /\ FormatCell(lastCall.daily_df.rows[k]["id"]) \in IdCells(lastCall.previous)

\* C3: whenever the accumulated table exists its id column is unique, for
\* every base table, one that repeats an id included
C3_UniqueWheneverExists == accumulated_path.exists => UniqueIds(accumulated_path)

PredictionColumns == {"price_preds", "price_diff"}

C5_SummaryArithmetic ==
    MergeReturned =>
        lastCall.summary.final_size =
            Len(PreviousTable.lines) + lastCall.summary.added_rows
                - lastCall.summary.duplicates_removed

\* a seeding merge that added rows and removed a duplicate
C5_Witness ==
    /\ MergeReturned
    /\ ~lastCall.previous.exists
    /\ lastCall.summary.added_rows > 0
    /\ lastCall.summary.duplicates_removed > 0

\* C6: added_rows is the number of incoming rows, duplicates_removed the
\* concatenated row count minus the deduplicated one, final_size the row
\* count of the table that was persisted
C6_SummaryFields ==
    MergeReturned =>
        /\ lastCall.summary.added_rows = Len(lastCall.daily_df.rows)
        /\ lastCall.summary.duplicates_removed =
               (Len(PreviousTable.lines) + Len(lastCall.daily_df.rows))
                   - Len(accumulated_path.lines)
        /\ lastCall.summary.final_size = Len(accumulated_path.lines)

\* a merge on an existing table whose incoming rows were partly duplicates
C6_Witness ==
    /\ MergeReturned
    /\ lastCall.previous.exists
    /\ lastCall.summary.added_rows = MaxRows
    /\ lastCall.summary.duplicates_removed = 1

\* the last merge added records whose ids were all absent from the table
MergedDisjointIds ==
    /\ MergeReturned /\ lastCall.previous.exists /\ DailyHasId
    /\ DailyIdCells \cap IdCells(lastCall.previous) = {}

\* C7 as stated: merging k records whose ids are all absent from the
\* accumulated table makes final_size exactly k larger than its size before
C7_DisjointGrowsByK ==
    MergedDisjointIds =>
        lastCall.summary.final_size =
            Len(lastCall.previous.lines) + Len(lastCall.daily_df.rows)

\* C7 as amended: merging k records whose ids are pairwise distinct and all
\* absent from the accumulated table makes final_size exactly k larger than
\* the number of distinct ids the table held before
C7_DistinctDisjointGrowsByK ==
    (MergedDisjointIds /\ Cardinality(DailyIdCells) = Len(lastCall.daily_df.rows)) =>
        lastCall.summary.final_size =
            Cardinality(IdCells(lastCall.previous)) + Len(lastCall.daily_df.rows)

\* two records with distinct new ids were merged into a table with rows
C7_Witness ==
    /\ MergedDisjointIds
    /\ Cardinality(DailyIdCells) = 2
    /\ Len(lastCall.daily_df.rows) = 2
    /\ Len(lastCall.previous.lines) >= 2
    /\ lastCall.summary.final_size = Len(lastCall.previous.lines) + 2

\* C8: a merge of records without an id column fails and leaves the
\* persisted accumulated table as it was
C8_MissingIdFails ==
    (/\ lastCall.op = "merge" /\ ~DailyHasId
     /\ lastCall.daily_df.columns # <<>> /\ Len(lastCall.daily_df.rows) > 0) =>
        /\ lastCall.outcome # "returned"
        /\ accumulated_path = lastCall.previous

\* C9: a merge of an empty table (one that brings no rows and no column the
\* accumulated table lacks) into an existing accumulated table reports no
\* added and no removed rows, the previous size, and changes nothing
C9_EmptyMergeUnchanged ==
    (/\ lastCall.op = "merge" /\ lastCall.previous.exists
     /\ Len(lastCall.daily_df.rows) = 0
     /\ Range(lastCall.daily_df.columns) \ PredictionColumns
            \subseteq Range(lastCall.previous.header)) =>
        /\ lastCall.outcome = "returned"
        /\ lastCall.summary = [added_rows |-> 0, duplicates_removed |-> 0,
                               final_size |-> Len(lastCall.previous.lines)]
        /\ accumulated_path = lastCall.previous

\* position of the last line of the base file with the given id
LastBaseLine(idCell) ==
    CHOOSE i \in 1..Len(base_training_path.lines) :
        /\ Cell(base_training_path, i, "id") = idCell
        /\ \A j \in (i + 1)..Len(base_training_path.lines) :
               Cell(base_training_path, j, "id") # idCell

\* the ids the incoming rows get in the merged table: their own, or the
\* missing value when the frame has no id column
IncomingIdCells ==
    IF DailyHasId THEN DailyIdCells
    ELSE IF Len(lastCall.daily_df.rows) > 0 THEN {""} ELSE {}

\* the incoming frame of Scenario A: scored records for ids 2 and 3
ScenarioADaily ==
    lastCall.daily_df = DailyFrame(<<"id", "price", "price_preds", "price_diff">>, <<2, 3>>)

ScenarioABase == CsvFile(<<"id", "price">>, << <<"1", "10">>, <<"2", "12">> >>)

\* C10: the first merge seeds from the base table: the persisted table holds
\* one row per id of the base and the incoming rows, base ids not overwritten
\* keep the values of their last base row and come first, incoming ids take
\* the values of their last incoming row; in Scenario A the table is ids 1, 2, 3
\* with id 2 at the incoming price and the summary is 2 added, 1 removed, 3 rows
C10_FirstMergeSeedsFromBase ==
    (MergeReturned /\ ~lastCall.previous.exists) =>
        /\ IdCells(accumulated_path) = IdCells(base_training_path) \cup IncomingIdCells
        /\ UniqueIds(accumulated_path)
        /\ \A i \in 1..Len(accumulated_path.lines) :
               LET idCell == Cell(accumulated_path, i, "id")
               IN  IF idCell \in IncomingIdCells
                   THEN /\ DailyHasId => LineIsDailyRow(i, LastDailyRow(idCell))
                        /\ \A j \in 1..Len(accumulated_path.lines) :
                               Cell(accumulated_path, j, "id") \notin IncomingIdCells => j < i
                   ELSE \A col \in Range(accumulated_path.header) :
                            Cell(accumulated_path, i, col) =
                                IF col \in Range(base_training_path.header)
                                THEN Cell(base_training_path, LastBaseLine(idCell), col)
                                ELSE ""
        /\ (base_training_path = ScenarioABase /\ ScenarioADaily) =>
               /\ accumulated_path =
                      CsvFile(<<"id", "price">>, << <<"1", "10">>, <<"2", "21">>, <<"3", "22">> >>)
               /\ lastCall.summary =
                      [added_rows |-> 2, duplicates_removed |-> 1, final_size |-> 3]

\* Scenario A happened: scored records for ids 2 and 3 merged into no file
C10_Witness ==
    /\ MergeReturned /\ ~lastCall.previous.exists
    /\ base_training_path = ScenarioABase
    /\ ScenarioADaily

\* the last call was a merge that found neither an accumulated nor a base file
MergeWithoutAnyFile ==
    /\ lastCall.op = "merge"
    /\ ~lastCall.previous.exists
    /\ ~base_training_path.exists

\* C11: a merge that finds neither the accumulated nor the base file raises
\* to its caller (the FileNotFoundError of read_csv, re-raised by the
\* handler) and leaves the accumulated file absent.
C11_MissingBaseMergeFails ==
    MergeWithoutAnyFile =>
        /\ lastCall.outcome = "FileNotFoundError"
        /\ lastCall.caught = ""
        /\ ~accumulated_path.exists

C11_Witness ==
    /\ MergeWithoutAnyFile
    /\ "id" \in Range(lastCall.daily_df.columns)
    /\ len(lastCall.daily_df) > 0
    /\ lastCall.outcome = "FileNotFoundError"
    /\ accumulated_path = NoFile

\* caller p has read the files its call starts from
HasLoaded(p) == proc[p].pc \in {"open", "write", "done"}

\* C12: whatever a caller finds at the accumulated path (stats, the load of
\* another merge, the training loader) is a table some call persisted in
\* full, or the one the run started with: never a file in the middle of
\* being replaced.
C12_ReadersSeeCompleteVersions ==
    \A p \in Procs :
        (HasLoaded(p) /\ proc[p].seen.exists) => proc[p].seen \in versions

\* caller p ran alone and its merge or reset raised
FailedAlone(p) ==
    /\ proc[p].pc = "done"
    /\ proc[p].op \in {"merge", "reset"}
    /\ proc[p].outcome = "raised"
    /\ \A q \in Procs \ {p} : proc[q].pc = "idle"

\* C13: a merge or reset that fails, at whatever step, leaves the
\* accumulated file as it was when the call began.
C13_FailureLeavesTableIntact ==
    \A p \in Procs : FailedAlone(p) => accumulated_path = proc[p].start

\* the ids of the training rows of a daily frame, as to_csv writes them
FrameIdCells(daily_df) ==
    {FormatCell(daily_df.rows[k]["id"]) : k \in 1..Len(daily_df.rows)}

\* both callers ran a merge and both merges returned
BothMerged ==
    \A p \in Procs :
        /\ proc[p].pc = "done"
        /\ proc[p].op = "merge"
        /\ proc[p].outcome = "returned"

\* C14: nothing orders the load of one merge after the write of another: the
\* table a merge leaves holds the ids of the file that merge loaded and of
\* its own frame, and no others, so rows another merge persisted since that
\* load are gone although both calls returned.
C14_WriteReflectsOwnLoadOnly ==
    \A p \in Procs :
        (writer = p /\ proc[p].pc = "done" /\ proc[p].op = "merge"
                    /\ proc[p].outcome = "returned") =>
            IdCells(accumulated_path) =
                IdCells(proc[p].source) \cup FrameIdCells(proc[p].daily_df)

\* a lost update: both merges returned and the ids one of them brought are
\* not in the table the other left
C14_Witness ==
    /\ BothMerged
    /\ \E p \in Procs, q \in Procs :
          /\ p # q
          /\ writer = q
          /\ FrameIdCells(proc[p].daily_df) \cap IdCells(accumulated_path) = {}
          /\ FrameIdCells(proc[q].daily_df) \subseteq IdCells(accumulated_path)

\* the last call was a reset that returned
ResetReturned == lastCall.op = "reset" /\ lastCall.outcome = "returned"

\* the last call was a stats call made right after a reset that returned
StatsAfterReset ==
    /\ lastCall.op = "stats"
    /\ lastCall.after.op = "reset"
    /\ lastCall.after.outcome = "returned"

\* C15: a reset, whatever the accumulated file was, leaves an exact copy of
\* the base file and returns the base row count; the stats call right after
\* it reports accumulated_size = base_size and growth = 0.
C15_ResetThenStats ==
    /\ ResetReturned =>
          /\ accumulated_path = base_training_path
          /\ lastCall.row_count = Len(base_training_path.lines)
    /\ StatsAfterReset =>
          /\ lastCall.outcome = "returned"
          /\ lastCall.stats.accumulated_size = lastCall.stats.base_size
          /\ lastCall.stats.growth = 0

\* the last two calls were resets that both returned
ResetTwice ==
    /\ ResetReturned
    /\ lastCall.after.op = "reset"
    /\ lastCall.after.outcome = "returned"

\* C16: a reset run right after a reset leaves the accumulated file as the
\* first one left it and returns the same row count.
C16_ResetIdempotent ==
    ResetTwice =>
        /\ accumulated_path = lastCall.previous
        /\ lastCall.row_count = lastCall.after.row_count

C16_Witness ==
    /\ ResetTwice
    /\ lastCall.row_count = 2
    /\ accumulated_path = base_training_path

\* the last call was a returned merge of the very frame the returned merge
\* before it was given
MergeRerun == MergeReturned /\ lastCall.rerun

\* C17: running a merge again with the same incoming frame leaves the
\* accumulated file as the first run left it: same header, same lines with
\* the same cells, in the same order.
C17_MergeIdempotent == MergeRerun => accumulated_path = lastCall.previous

C17_Witness ==
    /\ MergeRerun
    /\ DailyHasId
    /\ len(lastCall.daily_df) = 2
    /\ Len(accumulated_path.lines) > len(lastCall.daily_df)
    /\ accumulated_path = lastCall.previous

\* C18: with the base file readable, get_training_stats returns None exactly
\* when the accumulated file does not exist, whatever the number of base
\* rows, none included.
C18_StatsAbsentIffNoAccumulated ==
    (lastCall.op = "stats" /\ base_training_path.exists) =>
        (lastCall.outcome = "none" <=> ~accumulated_path.exists)

\* the last call was a stats call that returned its dict
StatsReturned == lastCall.op = "stats" /\ lastCall.outcome = "returned"

\* C19: the dict get_training_stats returns carries the row count of the
\* base file, the row count of the accumulated file, and their difference
\* accumulated minus base as growth, which is negative when the accumulated
\* file is the shorter one.
C19_StatsFields ==
    StatsReturned =>
        /\ lastCall.stats.base_size = Len(base_training_path.lines)
        /\ lastCall.stats.accumulated_size = Len(accumulated_path.lines)
        /\ lastCall.stats.growth =
               Len(accumulated_path.lines) - Len(base_training_path.lines)

C19_Witness ==
    /\ StatsReturned
    /\ lastCall.after.op = "merge"
    /\ lastCall.stats.base_size = 2
    /\ lastCall.stats.accumulated_size = 1
    /\ lastCall.stats.growth = -1

\* the exceptions that stand for a missing or an unreadable table
TableErrors == {"FileNotFoundError", "EmptyDataError"}

\* C20: a call that cannot complete because a file is missing or cannot be
\* parsed hands its caller an error, never one of the values a call that
\* completed returns; stats with an accumulated file and no base file does
\* not answer None as it does when there is no accumulated file.
C20_ErrorsReachTheCaller ==
    \A p \in Procs :
        (proc[p].pc = "done" /\ proc[p].error \in TableErrors) =>
            proc[p].outcome = "raised"

\* C21: no call, returned or failed, changes the base file; a merge or a
\* reset changes at most the accumulated file, and a stats call changes
\* neither file.
C21_BaseNeverModified ==
    [][/\ base_training_path' = base_training_path
       /\ lastCall'.op = "stats" => accumulated_path' = accumulated_path]_vars

\* two calls were made on a base file with rows, the accumulated file was
\* written, and it no longer equals the base file
C21_Witness ==
    /\ calls = 2
    /\ base_training_path = ScenarioABase
    /\ lastCall.op \in {"merge", "reset"}
    /\ lastCall.after.op \in {"merge", "stats"}
    /\ accumulated_path.exists
    /\ accumulated_path # base_training_path

\* no call is under way
Quiescent == \A p \in Procs : proc[p].pc \in {"idle", "done"}

\* caller p has come back from a merge or reset that returned
Succeeded(p) ==
    /\ proc[p].pc = "done"
    /\ proc[p].op \in {"merge", "reset"}
    /\ proc[p].outcome = "returned"

\* some table was persisted in full, or was there when the run started
SomeTablePersisted == \E v \in versions : v.exists

\* C22: between calls the accumulated file exists only once a merge or a
\* reset has succeeded (or when the run found it there), it exists after
\* every merge or reset that returned, and once it exists it never ceases
\* to exist.
C22_Lifecycle ==
    [][/\ (Quiescent' /\ accumulated_path'.exists) => SomeTablePersisted'
       /\ (\E p \in Procs : Succeeded(p)') => accumulated_path'.exists
       /\ accumulated_path.exists => accumulated_path'.exists]_vars

\* the id and price cells of the lines of a file, in line order
IdPricePairs(file) ==
    [i \in 1..Len(file.lines) |-> <<Cell(file, i, "id"), Cell(file, i, "price")>>]

\* the id and price cells the rows of the last incoming frame are written
\* with, in row order
DailyPairs ==
    [k \in 1..Len(lastCall.daily_df.rows) |->
        LET row == Reindex(lastCall.daily_df.rows[k], <<"id", "price">>)
        IN  <<FormatCell(row["id"]), FormatCell(row["price"])>>]

\* the incoming rows that survive: the last one for each id, in incoming order
IncomingKept ==
    KeepRows(DailyPairs,
             {k \in 1..Len(DailyPairs) :
                 \A m \in (k + 1)..Len(DailyPairs) : DailyPairs[m][1] # DailyPairs[k][1]})

\* the previous rows whose id the incoming frame does not carry
ExistingNotIncoming ==
    LET prev == IdPricePairs(PreviousTable)
    IN  KeepRows(prev, {i \in 1..Len(prev) : prev[i][1] \notin IncomingIdCells})

\* of those, the last one for each id
ExistingKept ==
    LET prev == IdPricePairs(PreviousTable)
    IN  KeepRows(prev,
                 {i \in 1..Len(prev) :
                     /\ prev[i][1] \notin IncomingIdCells
                     /\ \A j \in (i + 1)..Len(prev) : prev[j][1] # prev[i][1]})

\* C23 as stated: after a merge the file lists every previous row whose id
\* is not in the incoming frame, in the previous order, followed by the
\* surviving incoming rows in incoming order.
C23_ExistingThenIncoming ==
    MergeReturned => IdPricePairs(accumulated_path) = ExistingNotIncoming \o IncomingKept

\* C23 as amended: after a merge the file lists, for every id of the previous
\* table that is not in the incoming frame, the last previous row with that
\* id, in the previous order, followed by the surviving incoming rows in
\* incoming order; an overwritten id sits at the position of its incoming row.
C23_LastExistingThenIncoming ==
    MergeReturned => IdPricePairs(accumulated_path) = ExistingKept \o IncomingKept

\* id 2 sat between ids 1 and 3, is overwritten, and now comes last
C23_Witness ==
    /\ MergeReturned
    /\ lastCall.previous.exists
    /\ [i \in 1..Len(lastCall.previous.lines) |-> Cell(lastCall.previous, i, "id")]
           = <<"1", "2", "3">>
    /\ [i \in 1..Len(accumulated_path.lines) |-> Cell(accumulated_path, i, "id")]
           = <<"1", "3", "2">>

\* C24: calls made one after another: a merge that returns leaves exactly the
\* ids the table held before (the base ids on the first merge) together with
\* the ids of the incoming rows, and a merge that fails leaves the file as it
\* was, so merges never lose an id.
C24_IdsAreUnion ==
    lastCall.op = "merge" =>
        IF lastCall.outcome = "returned"
        THEN IdCells(accumulated_path) = IdCells(PreviousTable) \cup IncomingIdCells
        ELSE accumulated_path = lastCall.previous

\* the second of two merges in a row: it overwrites one id, brings none that
\* is new, and the id the first merge added is still there
C24_Witness ==
    /\ MergeReturned
    /\ lastCall.after.op = "merge"
    /\ lastCall.after.outcome = "returned"
    /\ base_training_path = ScenarioABase
    /\ DailyHasId
    /\ DailyIdCells = {"2"}
    /\ IdCells(lastCall.previous) = {"1", "2", "3"}
    /\ IdCells(accumulated_path) = {"1", "2", "3"}

(* ------------------ properties of the pipelines ------------------------- *)

\* the last handler invocation was a daily run that reached the accumulation
DailyAccumulated == run.kind = "daily" /\ run.monitored

\* C25: the frame the daily run hands to the accumulator carries the
\* prediction as price_preds together with price_diff, and when the merge
\* returns and the table it started from had neither column, the accumulated
\* file it wrote has neither
C25_ScoredColumnsStripped ==
    DailyAccumulated =>
        /\ PredictionColumns \subseteq Range(run.scored.columns)
        /\ "predicted_price" \notin Range(run.scored.columns)
        /\ Range(lastCall.daily_df.columns) = Range(run.scored.columns)
        /\ (/\ run.accumulation = "returned"
            /\ Range(PreviousTable.header) \cap PredictionColumns = {})
               => Range(accumulated_path.header) \cap PredictionColumns = {}

C25_Witness ==
    /\ DailyAccumulated
    /\ run.accumulation = "returned"
    /\ run.statusCode = 200
    /\ ~run.found.exists
    /\ Range(base_training_path.header) = {"id", "price"}
    /\ accumulated_path.header = <<"id", "price">>
    /\ IdCells(accumulated_path) = {"1", "2", "3"}

\* the accumulation or the email of the last daily run failed, and no other
\* step of that run did
OnlySideStepsFailed ==
    /\ DailyAccumulated
    /\ ~SummaryFails(run.scored)
    /\ run.accumulation # "returned" \/ run.email = "failed"

\* C26: a daily run whose accumulation or email failed still gets the scored
\* frame back from predict_and_monitor, logs pipeline success and returns
\* statusCode 200, and the accumulated file is as the failed merge left it
C26_SideStepFailuresAreNotFatal ==
    OnlySideStepsFailed =>
        /\ run.scored # NoFrame
        /\ run.statusCode = 200
        /\ run.log[Len(run.log)] = "pipeline_success"
        /\ "pipeline_failure" \notin Range(run.log)
        /\ run.accumulation # "returned" =>
               /\ lastCall.op = "merge"
               /\ lastCall.outcome = run.accumulation
               /\ accumulated_path = lastCall.previous

C26_Witness ==
    /\ OnlySideStepsFailed
    /\ run.accumulation = "FileNotFoundError"
    /\ run.email = "failed"
    /\ run.statusCode = 200
    /\ ~accumulated_path.exists

\* the last invocation was one of the two lambda handlers
HandlerRan == run.kind \in {"daily", "training"}

FlowSucceeded == flow.pc = "returned" /\ flow.status = "success"

\* C28 as stated: a flow reports success only when every handler it ran
\* returned statusCode 200
C28_SuccessOnlyAfter200 ==
    FlowSucceeded =>
        /\ flow.training_result \in {0, 200}
        /\ flow.prediction_result \in {0, 200}

\* C29: in full_ml_pipeline the prediction task starts only after the
\* training task returned, and it is never started when the training task
\* raised on its last attempt
C29_TrainingBeforePredictions ==
    flow.name = "full_ml_pipeline" =>
        /\ flow.predictions_started => flow.training_result # 0
        /\ flow.pc = "predictions" => flow.training_result # 0
        /\ flow.prediction_result # 0 => flow.training_result # 0
        /\ (flow.pc = "raised" /\ flow.training_result = 0) =>
               /\ ~flow.predictions_started
               /\ flow.prediction_result = 0
               /\ flow.attempts = Retries("training")

C29_Witness ==
    /\ flow.name = "full_ml_pipeline"
    /\ FlowSucceeded
    /\ flow.training_result = 200
    /\ flow.prediction_result = 200
    /\ run.kind = "daily"

\* the last call loaded the training data
Downloaded == run.kind \in {"download", "training"}

\* the file the last load names as its source
SourceFile ==
    CASE run.data_source = "accumulated" -> run.found
      [] run.data_source = "s3_base"     -> run.s3
      [] run.data_source = "local_base"  -> base_training_path
      [] OTHER                           -> run.legacy

\* row k of the loaded frame is the last line of the source with its id
IsLastOfItsId(k) ==
    \E i \in 1..Len(SourceFile.lines) :
        /\ \A col \in Range(run.df.columns) :
               Cell(SourceFile, i, col) = FormatCell(run.df.rows[k][col])
        /\ \A j \in (i + 1)..Len(SourceFile.lines) :
               Cell(SourceFile, j, "id") # Cell(SourceFile, i, "id")

\* C30: the loader reads the accumulated file when asked to and it exists,
\* else the S3 object, else the local base file, else the legacy file; the
\* frame it returns has one row per id of the source, the last one, and the
\* accumulated file is as it was found
C30_SourceOrderAndUniqueIds ==
    Downloaded =>
        /\ run.data_source =
               IF run.use_accumulated /\ run.found.exists THEN "accumulated"
               ELSE IF run.s3.exists THEN "s3_base"
               ELSE IF base_training_path.exists THEN "local_base"
               ELSE "legacy"
        /\ accumulated_path = run.found
        /\ run.outcome = "returned" =>
               /\ \A k, m \in 1..Len(run.df.rows) :
                      k # m => run.df.rows[k]["id"] # run.df.rows[m]["id"]
               /\ \A k \in 1..Len(run.df.rows) : IsLastOfItsId(k)
               /\ {FormatCell(run.df.rows[k]["id"]) : k \in 1..Len(run.df.rows)}
                      = IdCells(SourceFile)

C30_Witness ==
    /\ run.kind = "download"
    /\ run.use_accumulated
    /\ run.s3.exists
    /\ run.data_source = "accumulated"
    /\ run.outcome = "returned"
    /\ Len(run.found.lines) = 2
    /\ Len(run.df.rows) = 1
    /\ run.df.rows[1]["price"] = 12
====
